---- MODULE Spec2Model ----
(***************************************************************************)
(* ETF collector: the reference sync (ETFBasicCollector) and the series    *)
(* sync (ETFShareCollector) over the two tables etf_basic and              *)
(* etf_share_size, against a remote data source (TushareClient).           *)
(*                                                                         *)
(* A date object (datetime / Date column) is a day number counted from     *)
(* EpochYmd; a wire date is the 8-digit YYYYMMDD string, modelled as the   *)
(* number it spells.  Strftime and Strptime convert between the two.       *)
(* A fund identifier (ts_code) is a number.                                *)
(*                                                                         *)
(* The specifications share the collectors' actions.  Spec and             *)
(* SpecIncremental take a client call as one step that returns or raises;  *)
(* SpecJoinKey adds remote rows that lack a join key; SpecClient runs      *)
(* every client call in its attempts (retry, rate limit) and               *)
(* SpecClientFair adds the fairness of the sequential thread; SpecRunner   *)
(* runs the collectors as main calls them (validate, connect,              *)
(* create_tables, the selected operations, close); SpecConfig runs the     *)
(* start of main in every environment (Config, validate, connect);         *)
(* SpecDashboard pages through the fund list (load_fund_list) over any     *)
(* content of etf_basic.                                                   *)
(***************************************************************************)
EXTENDS Integers, Sequences, FiniteSets, Bags, TLC

\* ---------------------------------------------------------------- bounds
\* The last day number; the day numbers are 0..MaxDay.
MaxDay == 1
\* The most observations the remote source holds.
MaxRemote == 2
\* The rows without identifier or date the series table may come to hold.
MaxNull == 1
\* The most funds the dashboard's table holds, and its largest page size.
MaxFunds == 5
MaxPageSize == 2
\* The wire date of day number 0 (the days run over the end of February of a
\* leap year).
EpochYmd == 20240228

\* ------------------------------------------------------ program constants
DefaultStartDate == 20200101
\* @retry(tries=3, delay=1, backoff=2)
Tries == 3
Delay == 1
Backoff == 2

\* Two funds: one whose fetch fails or conflicts beside one whose fetch succeeds.
Funds == {1, 2}
Days == 0..MaxDay
\* Two share sizes: a stored size and a revised one.
Shares == {1, 2}
None == -1

VARIABLES
    etf_basic,        \* table etf_basic: the set of ts_code (primary key)
    etf_share_size,   \* table etf_share_size: a bag of rows (the surrogate id
                      \* only tells copies apart, so a copy is a multiplicity)
    remote,           \* the remote source's share-size observations (wire form)
    today,            \* datetime.now(), as a day number
    pc,               \* where the running collector is
    entry,            \* which operation the caller invoked
    etf_list,         \* ETFShareCollector: the fund list loaded for this run
    idx,              \* position of the for loop in etf_list
    start_date,       \* wire date requested from
    end_date,         \* wire date requested to
    df,               \* the fetched frame waiting to be saved
    total_records,    \* the run's record counter
    requests,         \* the fetch requests issued in this run, in order
    fetch_failed,     \* funds whose fetch raised in this run
    store0,           \* etf_share_size when the run was entered
    basic0,           \* etf_basic when the run was entered
    sessions,         \* sessions opened (get_session) in this run
    basic_df,         \* the fetched reference frame waiting to be saved
    job,              \* which collector is running: "basic" or "share"
    prev,             \* "clean" or "failed": the operation that returned last
                      \* was an incremental series sync, without or with a
                      \* failed fetch, and nothing happened since; else "none"
    scope,            \* what the latest get_session scope of this run did
    open_sessions,    \* sessions created and not closed
    api,              \* TushareClient: the decorated method being called
    outcome,          \* of that call: "running", "returned" or "raised"
    tries,            \* retry: the attempts left (_tries)
    delay,            \* retry: the next wait (_delay)
    timeline,         \* what the call did so far: delays and network calls
    error,            \* the cause the call raised with
    rpc,              \* main: where the collection runner is
    args,             \* main: the parsed command line
    config,           \* Config: the required settings the environment gives
    environ,          \* os.environ after load_dotenv, as main's Config saw it
    port,             \* the port of the database URL connect built
    calls,            \* main: the calls it made so far, in order
    todo,             \* main: the collectors still to run
    failing,          \* main: an exception is propagating
    exit,             \* main: "returned" or "raised" once it is over
    engine,           \* Database.engine: "none", "live" or "disposed"
    schema,           \* the tables and indexes the database holds
    fund_table,       \* dashboard: the rows of etf_basic it queries
    dash              \* dashboard: the fund list page it shows

vars == <<etf_basic, etf_share_size, remote, today, pc, entry,
          etf_list, idx, start_date, end_date, df, total_records, requests,
          fetch_failed, store0, basic0, sessions, basic_df, job, prev,
          scope, open_sessions, api, outcome, tries, delay, timeline, error,
          rpc, args, config, environ, port, calls, todo, failing, exit,
          engine, schema, fund_table, dash>>

collectorVars == <<etf_basic, etf_share_size, remote, today, pc, entry,
                   etf_list, idx, start_date, end_date, df, total_records,
                   requests, fetch_failed, store0, basic0, sessions, basic_df,
                   job, prev, scope, open_sessions>>

clientVars == <<api, outcome, tries, delay, timeline, error>>

runnerVars == <<rpc, args, config, environ, port, calls, todo, failing, exit,
                engine, schema>>

dashVars == <<fund_table, dash>>

\* ------------------------------------------------------------ dates
IsLeap(y) == (y % 4 = 0 /\ y % 100 # 0) \/ y % 400 = 0

DaysInMonth(y, m) ==
    IF m = 2 THEN (IF IsLeap(y) THEN 29 ELSE 28)
    ELSE IF m \in {4, 6, 9, 11} THEN 30 ELSE 31

\* date + timedelta(days=1), on the calendar fields
NextDay(ymd) ==
    LET y == ymd \div 10000
        m == (ymd \div 100) % 100
        d == ymd % 100
    IN  IF d < DaysInMonth(y, m) THEN ymd + 1
        ELSE IF m < 12 THEN y * 10000 + (m + 1) * 100 + 1
        ELSE (y + 1) * 10000 + 101

RECURSIVE Strftime(_)
\* date.strftime('%Y%m%d')
Strftime(n) == IF n = 0 THEN EpochYmd ELSE NextDay(Strftime(n - 1))

\* datetime.strptime(s, '%Y%m%d') / pd.to_datetime(s, format='%Y%m%d')
Strptime(s) == CHOOSE n \in 0..(MaxDay + 2) : Strftime(n) = s

\* ------------------------------------------------------------ tables
\* The (ts_code, trade_date) key of a series row.
Key(r) == <<r.ts_code, r.trade_date>>

\* pd.NaT: what to_datetime makes of a missing trade date.
NaT == -2

\* A row with NULL in a column of the key (both columns are nullable).
HasNull(r) == r.ts_code = None \/ r.trade_date = None

\* Index('idx_ts_code_trade_date', 'ts_code', 'trade_date', unique=True):
\* whether a table content satisfies the unique index.  The database takes
\* NULLs as distinct, so a key with a NULL repeats nothing.
UniqueIndexOk(table) ==
    \A r1 \in BagToSet(table) :
        HasNull(r1) \/
            /\ CopiesIn(r1, table) = 1
            /\ \A r2 \in BagToSet(table) : Key(r1) = Key(r2) => r1 = r2

\* ETFShareSize(**filtered_record); session.merge(share): the object carries
\* no primary key (id is None), so merge adds it to the session as a new,
\* pending row.
Merge(pending, share) == pending (+) SetToBag({share})

\* MergeAll with session.merge outside the for loop: only the last record
\* of the frame (the source lists the newest first) is merged.
MergeLastOnly(pending, records) ==
    IF records = {} THEN pending
    ELSE Merge(pending, CHOOSE r \in records :
                            \A x \in records : r.trade_date <= x.trade_date)

RECURSIVE MergeAll(_, _)
\* for record in records: session.merge(...)
MergeAll(pending, records) ==
    IF records = {} THEN pending
    ELSE LET r == CHOOSE x \in records : TRUE
         IN  MergeAll(Merge(pending, r), records \ {r})

\* CommitOk without the unique index: every flush is accepted.
CommitAlways(table, pending) == TRUE

\* session.commit() of a session holding the pending rows: the flush INSERTs
\* them; the unique index rejects the flush when a key would repeat, and
\* the Date column rejects a value that is no date (NaT).
CommitOk(table, pending) ==
    /\ UniqueIndexOk(table (+) pending)
    /\ \A r \in BagToSet(pending) : r.trade_date # NaT

\* func.max(ETFShareSize.trade_date) ... .scalar(): max skips NULLs and is
\* NULL when no date is left (None is below every date).
MaxTradeDate(table) ==
    IF BagToSet(table) = {} THEN None
    ELSE CHOOSE d \in {r.trade_date : r \in BagToSet(table)} :
             \A r \in BagToSet(table) : r.trade_date <= d

\* ETFShareCollector.get_latest_date
GetLatestDate(table) ==
    LET latest == MaxTradeDate(table)
    IN  IF latest = None THEN None ELSE Strftime(latest)

\* ETFShareCollector.get_etf_list: the ts_code column in the order the
\* database returns the rows (the query has no ORDER BY).
GetEtfLists(basic) ==
    {s \in [1..Cardinality(basic) -> basic] :
        \A i, j \in 1..Cardinality(basic) : s[i] = s[j] => i = j}

\* ------------------------------------------------------------ remote
\* pro.fund_share(ts_code, start_date, end_date): the observations of one
\* fund between the two wire dates, bounds inclusive.
FundShare(ts_code, start, end) ==
    {r \in remote : r.ts_code = ts_code /\ start <= r.trade_date /\ r.trade_date <= end}

\* df['trade_date'] = pd.to_datetime(df['trade_date'], format='%Y%m%d')
ToDatetime(frame) ==
    {[ts_code |-> r.ts_code, trade_date |-> Strptime(r.trade_date),
      fund_share |-> r.fund_share] : r \in frame}

\* The frames pro.fund_basic may return: any list of identifiers.
BasicFrames == UNION {[1..n -> Funds] : n \in 0..Cardinality(Funds)}

NoPrev == "none"

\* ------------------------------------------------------------ sessions
\* GetSession whose except clause neither rolls back nor re-raises.
GetSessionSwallow(unit_raises, commit_raises) ==
    <<"SessionLocal">>
        \o (IF unit_raises THEN <<>>
            ELSE IF commit_raises THEN <<"commit_raises">>
            ELSE <<"commit">>)
        \o <<"close">>

\* GetSession without the finally clause.
GetSessionNoClose(unit_raises, commit_raises) ==
    <<"SessionLocal">>
        \o (IF unit_raises THEN <<"rollback", "raise">>
            ELSE IF commit_raises THEN <<"commit_raises", "rollback", "raise">>
            ELSE <<"commit">>)

\* Database.get_session around a unit of work: what the scope does, in
\* order, when the unit of work raises, when the commit raises, and when
\* neither does ("commit" is a commit that returned).
GetSession(unit_raises, commit_raises) ==
    <<"SessionLocal">>
        \o (IF unit_raises THEN <<"rollback", "raise">>
            ELSE IF commit_raises THEN <<"commit_raises", "rollback", "raise">>
            ELSE <<"commit">>)
        \o <<"close">>

Count(events, e) == Cardinality({i \in 1..Len(events) : events[i] = e})

\* Whether the scope left by raising.
Raised(events) == Count(events, "raise") > 0

\* The sessions the scope leaves open.
LeftOpen(events) == Count(events, "SessionLocal") - Count(events, "close")

\* AfterScope when the work of a transaction that was not committed stays.
AfterScopeKeepsWork(before, work, events) == work

\* A table after a scope: the work of the unit if its transaction was
\* committed, else the table as the transaction found it.
AfterScope(before, work, events) ==
    IF Count(events, "commit") > 0 THEN work ELSE before

NoScope == <<>>

\* ------------------------------------------------------------ runner
NoArgs == [mode |-> "none", data_type |-> "none", start_date |-> None]

\* Config.validate: the required settings.
Required == {"TUSHARE_TOKEN", "DB_HOST", "DB_PASSWORD"}

\* validate that only looks at the data-source token.
ValidateOkTokenOnly(cfg) == "TUSHARE_TOKEN" \in cfg

\* Config.validate of a configuration, given as the required settings it
\* has: whether it returns.
ValidateOk(cfg) == Required \ cfg = {}

\* --------------------------------------------------------- dashboard
\* No fund list page is shown.
NoDash == <<>>

\* A filter of the dictionary, None when the key (or the dictionary) is
\* missing: filters.get(key)
FiltersGet(filters, key) ==
    IF key \in DOMAIN filters THEN filters[key] ELSE ""

\* if filters.get(key): a value that is neither None nor empty.
Truthy(v) == v # ""

\* query.filter(ETFBasic.delist_date.is_(None)), then one equality filter
\* per filter given.
Query(table, filters) ==
    {f \in table :
        /\ f.delist_date = None
        /\ Truthy(FiltersGet(filters, "fund_type"))
               => f.fund_type = FiltersGet(filters, "fund_type")
        /\ Truthy(FiltersGet(filters, "market"))
               => f.market = FiltersGet(filters, "market")
        /\ Truthy(FiltersGet(filters, "management"))
               => f.management = FiltersGet(filters, "management")}

RECURSIVE OrderBy(_)
\* query.order_by(ETFBasic.ts_code): ts_code is the primary key, so the order
\* is total.
OrderBy(rows) ==
    IF rows = {} THEN <<>>
    ELSE LET first == CHOOSE f \in rows : \A g \in rows : f.ts_code <= g.ts_code
         IN  <<first>> \o OrderBy(rows \ {first})

\* Offset taking the page number as 0-based.
OffsetZeroBased(page, page_size) == page * page_size

\* offset = (page - 1) * page_size
Offset(page, page_size) == (page - 1) * page_size

\* .offset(offset).limit(page_size).all()
OffsetLimit(ordered, offset, limit) ==
    [i \in 1..(IF Len(ordered) - offset < limit
               THEN (IF Len(ordered) > offset THEN Len(ordered) - offset ELSE 0)
               ELSE limit) |-> ordered[offset + i]]

\* load_fund_list(filters, page, page_size)
LoadFundList(table, filters, page, page_size) ==
    LET query == Query(table, filters)
        total == Cardinality(query)
        offset == Offset(page, page_size)
        funds == OffsetLimit(OrderBy(query), offset, page_size)
        total_pages == (total + page_size - 1) \div page_size
    IN  [funds |-> funds, total |-> total, pages |-> total_pages]

\* ------------------------------------------------------------ config
\* The environment before load_dotenv found anything.
NoEnviron == <<>>

DefaultPort == 5432

PoolerPort == 6543

\* int(): the strings it converts, with their values; on any other string
\* it raises ValueError.
Numerals == ("5432" :> 5432) @@ ("6543" :> 6543)

\* os.getenv(key, default)
Getenv(env, key, default) == IF key \in DOMAIN env THEN env[key] ELSE default

\* str.lower, on the strings of the model.
Lower(s) == IF s = "True" THEN "true" ELSE s

\* Config.DB_PORT: int(os.getenv('DB_PORT', 5432)), and 5432 when int
\* raises (the default is written as the string int converts to it).
DbPort(env) ==
    LET raw == Getenv(env, "DB_PORT", "5432")
    IN  IF raw \in DOMAIN Numerals THEN Numerals[raw] ELSE DefaultPort

\* Config.USE_POOLER
UsePooler(env) == Lower(Getenv(env, "USE_POOLER", "false")) = "true"

\* The port of the URL Database.connect builds: the pooler's when the
\* pooler is asked for and has a host, else Config.DB_PORT.
ConnectPort(env) ==
    IF UsePooler(env) /\ Getenv(env, "DB_POOLER_HOST", "") # ""
    THEN PoolerPort
    ELSE DbPort(env)

\* The required settings that `not getattr(self, key)` finds set: those
\* the environment gives a non-empty value.
Given(env) == {k \in Required : Getenv(env, k, "") # ""}

Tables == {"etf_basic", "etf_share_size"}

\* The indexes of a table (__table_args__).
IndexesOf(t) ==
    IF t = "etf_share_size" THEN {"idx_ts_code_trade_date"} ELSE {}

\* CreateAll creating no index.
CreateAllTablesOnly(db) == db \cup Tables

\* Base.metadata.create_all: every table the database lacks is created,
\* with its indexes.
CreateAll(db) == db \cup UNION {{t} \cup IndexesOf(t) : t \in Tables \ db}

\* Selected with elif for the second test: the share collector only when the
\* basic collector is not selected.
SelectedElif(data_type) ==
    IF data_type \in {"basic", "all"} THEN <<"basic">>
    ELSE IF data_type \in {"share", "all"} THEN <<"share">> ELSE <<>>

\* The collectors main runs for a data type, in order.
Selected(data_type) ==
    (IF data_type \in {"basic", "all"} THEN <<"basic">> ELSE <<>>)
        \o (IF data_type \in {"share", "all"} THEN <<"share">> ELSE <<>>)

\* The operation main calls on a collector in a mode.
Operation(collector, mode) ==
    IF collector = "basic"
    THEN (IF mode = "full" THEN "basic.collect_full"
          ELSE "basic.collect_incremental")
    ELSE (IF mode = "full" THEN "share.collect_full"
          ELSE "share.collect_incremental")

\* Finally closing only when no exception propagates (the close at the end
\* of the try block).
FinallyOnReturn(bound, eng, raising) ==
    IF bound /\ ~raising
    THEN <<"close">> \o (IF eng = "live" THEN <<"dispose">> ELSE <<>>)
    ELSE <<>>

\* finally: if 'db' in locals(): db.close(); Database.close disposes the
\* engine if there is one.
Finally(bound, eng, raising) ==
    IF bound
    THEN <<"close">> \o (IF eng = "live" THEN <<"dispose">> ELSE <<>>)
    ELSE <<>>

\* ------------------------------------------------------------ state
Init ==
    /\ etf_basic = {}
    /\ etf_share_size = EmptyBag
    /\ remote = {}
    /\ today = 0
    /\ pc = "idle"
    /\ job = "none"
    /\ entry = "none"
    /\ etf_list = <<>>
    /\ idx = 0
    /\ start_date = None
    /\ end_date = None
    /\ df = {}
    /\ basic_df = <<>>
    /\ total_records = 0
    /\ requests = <<>>
    /\ fetch_failed = {}
    /\ store0 = EmptyBag
    /\ basic0 = {}
    /\ sessions = 0
    /\ prev = NoPrev
    /\ scope = NoScope
    /\ open_sessions = 0
    /\ api = "none"
    /\ outcome = "none"
    /\ tries = 0
    /\ delay = 0
    /\ timeline = <<>>
    /\ error = None
    /\ rpc = "off"
    /\ args = NoArgs
    /\ config = {}
    /\ environ = NoEnviron
    /\ port = None
    /\ fund_table = {}
    /\ dash = NoDash
    /\ calls = <<>>
    /\ todo = <<>>
    /\ failing = FALSE
    /\ exit = "none"
    /\ engine = "none"
    /\ schema = {}

\* ------------------------------------------------------ environment
\* The remote source publishes or revises one observation.  It does so
\* between runs: a fetch reads one fund's observations at once, so a change
\* during a run is a change before or after it.
Publish(f, d, v) ==
    /\ pc = "idle"
    /\ [ts_code |-> f, trade_date |-> Strftime(d), fund_share |-> v] \notin remote
    /\ \/ \E r \in remote : r.ts_code = f /\ r.trade_date = Strftime(d)
       \/ Cardinality(remote) < MaxRemote
    /\ remote' = {r \in remote : ~(r.ts_code = f /\ r.trade_date = Strftime(d))}
                  \cup {[ts_code |-> f, trade_date |-> Strftime(d), fund_share |-> v]}
    /\ prev' = NoPrev
    /\ UNCHANGED <<etf_basic, etf_share_size, today, pc, entry, etf_list, idx,
                   start_date, end_date, df, total_records, requests,
                   fetch_failed, store0, basic0, sessions, basic_df, job,
                   scope, open_sessions>>

\* A day passes.
Tick ==
    /\ pc = "idle"
    /\ today < MaxDay
    /\ today' = today + 1
    /\ prev' = NoPrev
    /\ UNCHANGED <<etf_basic, etf_share_size, remote, pc, entry,
                   etf_list, idx, start_date, end_date, df, total_records,
                   requests, fetch_failed, store0, basic0, sessions, basic_df,
                   job, scope, open_sessions>>

\* ------------------------------------------------- ETFShareCollector
\* end_date = datetime.now().strftime('%Y%m%d'), for a run from start.
EndDateOf(start) == Strftime(today)

\* The part collect_full and collect_incremental share on entering their
\* loop: etf_list = self.get_etf_list(); end_date = now; total_records = 0.
EnterLoop(start, opened) ==
    /\ etf_list' \in GetEtfLists(etf_basic)
    /\ start_date' = start
    /\ end_date' = EndDateOf(start)
    /\ total_records' = 0
    /\ idx' = 1
    /\ pc' = "loop"
    /\ job' = "share"
    /\ df' = {}
    /\ requests' = <<>>
    /\ fetch_failed' = {}
    /\ store0' = etf_share_size
    /\ basic0' = etf_basic
    /\ sessions' = opened + 1
    /\ UNCHANGED <<etf_basic, etf_share_size, remote, today,
                   basic_df>>

\* Abort with the except clause of the operation returning instead of
\* re-raising.
AbortSwallowed(opened) ==
    /\ pc' = "done"
    /\ job' = "share"
    /\ etf_list' = <<>>
    /\ idx' = 0
    /\ start_date' = None
    /\ end_date' = None
    /\ total_records' = 0
    /\ df' = {}
    /\ requests' = <<>>
    /\ fetch_failed' = {}
    /\ store0' = etf_share_size
    /\ basic0' = etf_basic
    /\ sessions' = opened + 1
    /\ UNCHANGED <<etf_basic, etf_share_size, remote, today, basic_df>>

\* A scope outside the for loop raised: the except clause of the operation
\* logs the error and re-raises it.
Abort(opened) ==
    /\ pc' = "raised"
    /\ job' = "share"
    /\ etf_list' = <<>>
    /\ idx' = 0
    /\ start_date' = None
    /\ end_date' = None
    /\ total_records' = 0
    /\ df' = {}
    /\ requests' = <<>>
    /\ fetch_failed' = {}
    /\ store0' = etf_share_size
    /\ basic0' = etf_basic
    /\ sessions' = opened + 1
    /\ UNCHANGED <<etf_basic, etf_share_size, remote, today, basic_df>>

\* collect_full(start_date) is called; the query of get_etf_list succeeds or
\* raises.
CollectFull(start, list_ok) ==
    /\ pc = "idle"
    /\ entry' = "full"
    /\ prev' = NoPrev
    /\ scope' = GetSession(~list_ok, FALSE)
    /\ open_sessions' = open_sessions + LeftOpen(scope')
    /\ IF Raised(scope') THEN Abort(0) ELSE EnterLoop(start, 0)

\* IncrementalStart that ignores the watermark: the default start date.
IncrementalStartDefault(latest_date) == DefaultStartDate

\* IncrementalStart without the timedelta: the watermark day itself.
IncrementalStartSameDay(latest_date) == latest_date

\* The start date collect_incremental computes from the watermark:
\* strptime, + timedelta(days=1), strftime.
IncrementalStart(latest_date) == Strftime(Strptime(latest_date) + 1)

\* IncrementalFrom delegating with today as the start date.
IncrementalFromToday(latest_date) ==
    IF latest_date = None THEN Strftime(today)
    ELSE Strftime(Strptime(latest_date) + 1)

\* The start date collect_incremental runs its fetches from: the default of
\* collect_full when there is no watermark.
IncrementalFrom(latest_date) ==
    IF latest_date = None THEN DefaultStartDate
    ELSE IncrementalStart(latest_date)

\* collect_incremental() is called; the query of get_latest_date and then
\* the query of get_etf_list succeed or raise.
CollectIncremental(latest_ok, list_ok) ==
    /\ pc = "idle"
    /\ entry' = "incremental"
    /\ prev' = prev
    /\ LET latest == GetSession(~latest_ok, FALSE)
           list == GetSession(~list_ok, FALSE)
       IN  IF Raised(latest)
           THEN /\ scope' = latest
                /\ open_sessions' = open_sessions + LeftOpen(latest)
                /\ Abort(0)
           ELSE /\ scope' = list
                /\ open_sessions' =
                       open_sessions + LeftOpen(latest) + LeftOpen(list)
                /\ IF Raised(list) THEN Abort(1)
                   ELSE EnterLoop(IncrementalFrom(GetLatestDate(etf_share_size)), 1)

\* Fetch without the df.empty check: an empty frame goes to the save.
FetchSavesEmpty(ok) ==
    /\ pc = "loop"
    /\ idx <= Len(etf_list)
    /\ LET ts_code == etf_list[idx]
           got == FundShare(ts_code, start_date, end_date)
       IN  /\ requests' = Append(requests,
                   [ts_code |-> ts_code, start_date |-> start_date,
                    end_date |-> end_date])
           /\ IF ~ok
              THEN /\ fetch_failed' = fetch_failed \cup {ts_code}
                   /\ idx' = idx + 1
                   /\ UNCHANGED <<pc, df>>
              ELSE /\ df' = ToDatetime(got)
                   /\ pc' = "save"
                   /\ UNCHANGED <<idx, fetch_failed>>
    /\ UNCHANGED <<etf_basic, etf_share_size, remote, today, entry,
                   etf_list, start_date, end_date, total_records, store0,
                   basic0, sessions, basic_df, job, prev, scope,
                   open_sessions>>

\* One iteration of the for loop up to the save: the fetch (with its
\* retries) raises, or returns an empty frame, or returns rows.
Fetch(ok) ==
    /\ pc = "loop"
    /\ idx <= Len(etf_list)
    /\ LET ts_code == etf_list[idx]
           got == FundShare(ts_code, start_date, end_date)
       IN  /\ requests' = Append(requests,
                   [ts_code |-> ts_code, start_date |-> start_date,
                    end_date |-> end_date])
           /\ IF ~ok
              THEN /\ fetch_failed' = fetch_failed \cup {ts_code}
                   /\ idx' = idx + 1
                   /\ UNCHANGED <<pc, df>>
              ELSE IF got = {}
              THEN /\ idx' = idx + 1
                   /\ UNCHANGED <<pc, df, fetch_failed>>
              ELSE /\ df' = ToDatetime(got)
                   /\ pc' = "save"
                   /\ UNCHANGED <<idx, fetch_failed>>
    /\ UNCHANGED <<etf_basic, etf_share_size, remote, today, entry,
                   etf_list, start_date, end_date, total_records, store0,
                   basic0, sessions, basic_df, job, prev, scope,
                   open_sessions>>

\* A flush that first deletes every stored row of the fund being saved.
FlushReplacesFund(table, pending) ==
    LET kept == {r \in BagToSet(table) : r.ts_code # etf_list[idx]}
    IN  [r \in kept |-> table[r]] (+) pending

\* A flush that first deletes every stored row from the start date on, of
\* whichever fund.
FlushReplacesRange(table, pending) ==
    LET kept == {r \in BagToSet(table) : Strftime(r.trade_date) < start_date}
    IN  [r \in kept |-> table[r]] (+) pending

\* What the session sends to the table at the commit: one INSERT per
\* merged object, and nothing else (the loop body issues no DELETE).
Flush(table, pending) == table (+) pending

\* The rows of a table that lack the fund identifier or the trade date.
NullRows(table) ==
    BagCardinality([r \in {x \in BagToSet(table) : HasNull(x)} |-> table[r]])

\* One iteration of the for loop up to the save, when the remote source
\* answers with a frame of one row that lacks a join key: a trade date that
\* to_datetime cannot parse (it raises, and the except clause goes on with
\* the next fund), a null trade date (to_datetime makes it NaT), or a null
\* ts_code.
FetchMalformed(kind, share) ==
    /\ pc = "loop"
    /\ idx <= Len(etf_list)
    /\ NullRows(etf_share_size) < MaxNull
    /\ LET ts_code == etf_list[idx]
       IN  /\ requests' = Append(requests,
                   [ts_code |-> ts_code, start_date |-> start_date,
                    end_date |-> end_date])
           /\ IF kind = "bad_trade_date"
              THEN /\ fetch_failed' = fetch_failed \cup {ts_code}
                   /\ idx' = idx + 1
                   /\ UNCHANGED <<pc, df>>
              ELSE /\ df' = {[ts_code |-> IF kind = "null_ts_code" THEN None
                                          ELSE ts_code,
                              trade_date |-> IF kind = "null_trade_date" THEN NaT
                                             ELSE today,
                              fund_share |-> share]}
                   /\ pc' = "save"
                   /\ UNCHANGED <<idx, fetch_failed>>
    /\ UNCHANGED <<etf_basic, etf_share_size, remote, today, entry,
                   etf_list, start_date, end_date, total_records, store0,
                   basic0, sessions, basic_df, job, prev, scope,
                   open_sessions>>

\* Save that also deletes from etf_basic the fund whose batch was rejected.
SaveDropsFailedFund ==
    /\ pc = "save"
    /\ LET pending == MergeAll(EmptyBag, df)
           events == GetSession(FALSE, ~CommitOk(etf_share_size, pending))
       IN  /\ etf_share_size' =
                  AfterScope(etf_share_size, Flush(etf_share_size, pending), events)
           /\ etf_basic' = IF Raised(events)
                           THEN etf_basic \ {etf_list[idx]} ELSE etf_basic
           /\ total_records' = total_records + Cardinality(df)
           /\ scope' = events
           /\ open_sessions' = open_sessions + LeftOpen(events)
    /\ sessions' = sessions + 1
    /\ df' = {}
    /\ idx' = idx + 1
    /\ pc' = "loop"
    /\ UNCHANGED <<remote, today, entry, etf_list, start_date, end_date,
                   requests, fetch_failed, store0, basic0, basic_df, job, prev>>

\* with self.db.get_session() as session: merge every record, count them,
\* then the scope commits; a failed commit is rolled back and re-raised, and
\* the loop's except clause continues with the next fund.
Save ==
    /\ pc = "save"
    /\ LET pending == MergeAll(EmptyBag, df)
           events == GetSession(FALSE, ~CommitOk(etf_share_size, pending))
       IN  /\ etf_share_size' =
                  AfterScope(etf_share_size, Flush(etf_share_size, pending), events)
           /\ total_records' = total_records + Cardinality(df)
           /\ scope' = events
           /\ open_sessions' = open_sessions + LeftOpen(events)
    /\ sessions' = sessions + 1
    /\ df' = {}
    /\ idx' = idx + 1
    /\ pc' = "loop"
    /\ UNCHANGED <<etf_basic, remote, today, entry, etf_list,
                   start_date, end_date, requests, fetch_failed, store0,
                   basic0, basic_df, job, prev>>

\* The loop is over: the total is logged and the operation returns.
LoopEnd ==
    /\ pc = "loop"
    /\ idx > Len(etf_list)
    /\ pc' = "done"
    /\ UNCHANGED <<etf_basic, etf_share_size, remote, today, entry,
                   etf_list, idx, start_date, end_date, df, total_records,
                   requests, fetch_failed, store0, basic0, sessions, basic_df,
                   job, prev, scope, open_sessions>>

\* ------------------------------------------------- ETFBasicCollector
\* BasicFetch without the df.empty check: an empty frame is saved like any.
BasicFetchNoEmptyCheck(ok, frame) ==
    /\ pc = "idle"
    /\ job' = "basic"
    /\ entry' = "full"
    /\ basic0' = etf_basic
    /\ store0' = etf_share_size
    /\ sessions' = 0
    /\ prev' = NoPrev
    /\ IF ~ok THEN pc' = "raised" /\ basic_df' = <<>>
       ELSE pc' = "basic_save" /\ basic_df' = frame
    /\ fetch_failed' = IF ok THEN {} ELSE {None}
    /\ UNCHANGED <<etf_basic, etf_share_size, remote, today,
                   etf_list, idx, start_date, end_date, df, total_records,
                   requests, scope, open_sessions>>

\* collect_full up to the save: the fetch raises (and the error is re-raised),
\* or returns no row (warning, return), or returns rows.
BasicFetch(ok, frame) ==
    /\ pc = "idle"
    /\ job' = "basic"
    /\ entry' = "full"
    /\ basic0' = etf_basic
    /\ store0' = etf_share_size
    /\ sessions' = 0
    /\ prev' = NoPrev
    /\ IF ~ok THEN pc' = "raised" /\ basic_df' = <<>>
       ELSE IF frame = <<>> THEN pc' = "done" /\ basic_df' = <<>>
       ELSE pc' = "basic_save" /\ basic_df' = frame
    /\ fetch_failed' = IF ok THEN {} ELSE {None}
    /\ UNCHANGED <<etf_basic, etf_share_size, remote, today,
                   etf_list, idx, start_date, end_date, df, total_records,
                   requests, scope, open_sessions>>

\* DeleteAll without the delete.
DeleteNone(table) == table

\* session.query(ETFBasic).delete()
DeleteAll(table) == {}

\* The identifiers of a frame's records.
Codes(frame) == {frame[i] : i \in 1..Len(frame)}

\* BasicCommitOk with a foreign key from etf_share_size.ts_code to
\* etf_basic.ts_code: the commit is also rejected when a series row would
\* be left without its fund.
BasicCommitOkForeignKey(table, frame) ==
    /\ \A i, j \in 1..Len(frame) : frame[i] = frame[j] => i = j
    /\ table \cap {frame[i] : i \in 1..Len(frame)} = {}
    /\ \A r \in BagToSet(etf_share_size) :
           r.ts_code \in table \cup {frame[i] : i \in 1..Len(frame)}

\* The primary key of etf_basic rejects a flush that inserts an identifier
\* twice or one the table still holds.
BasicCommitOk(table, frame) ==
    /\ \A i, j \in 1..Len(frame) : frame[i] = frame[j] => i = j
    /\ table \cap Codes(frame) = {}

\* with self.db.get_session() as session: delete the rows, add every record;
\* the scope commits, or rolls back and re-raises.
BasicSave ==
    /\ pc = "basic_save"
    /\ sessions' = sessions + 1
    /\ LET events ==
               GetSession(FALSE, ~BasicCommitOk(DeleteAll(etf_basic), basic_df))
       IN  /\ etf_basic' =
                  AfterScope(etf_basic,
                             DeleteAll(etf_basic) \cup Codes(basic_df), events)
           /\ pc' = IF Raised(events) THEN "raised" ELSE "done"
           /\ scope' = events
           /\ open_sessions' = open_sessions + LeftOpen(events)
    /\ UNCHANGED <<etf_share_size, remote, today, entry, etf_list,
                   idx, start_date, end_date, df, total_records, requests,
                   fetch_failed, store0, basic0, basic_df, job, prev>>

\* ----------------------------------------------------- TushareClient
\* The causes a network call fails with (a timeout, a throttled request).
Causes == {1, 2}

\* time.sleep(self.config.API_CALL_INTERVAL)
RateLimit == [ev |-> "rate_limit", arg |-> 0]

\* self.pro.fund_basic(...) / self.pro.fund_share(...): a network call that
\* returns (cause None) or fails with a cause.
Network(cause) == [ev |-> "call", arg |-> cause]

\* retry: time.sleep(_delay)
Sleep(d) == [ev |-> "sleep", arg |-> d]

\* MethodBody with the network call before the rate-limit delay.
MethodBodyCallFirst(cause) == <<Network(cause), RateLimit>>

\* The body of a decorated method: self._rate_limit(), then the network call.
MethodBody(cause) == <<RateLimit, Network(cause)>>

\* NextDelay without the backoff.
NextDelaySame(d) == d

\* retry: _delay *= backoff
NextDelay(d) == d * Backoff

\* ClientCall made inside a get_session block: the caller opened a session
\* before the call and closes it only after the call is over.
ClientCallInSession(method) ==
    /\ api = "none"
    /\ api' = method
    /\ outcome' = "running"
    /\ tries' = Tries
    /\ delay' = Delay
    /\ timeline' = <<>>
    /\ error' = None
    /\ open_sessions' = open_sessions + 1
    /\ UNCHANGED <<etf_basic, etf_share_size, remote, today, pc, entry,
                   etf_list, idx, start_date, end_date, df, total_records,
                   requests, fetch_failed, store0, basic0, sessions, basic_df,
                   job, prev, scope, runnerVars, dashVars>>

\* A decorated method is called: retry starts with _tries, _delay = tries,
\* delay.
ClientCall(method) ==
    /\ api = "none"
    /\ api' = method
    /\ outcome' = "running"
    /\ tries' = Tries
    /\ delay' = Delay
    /\ timeline' = <<>>
    /\ error' = None
    /\ UNCHANGED <<collectorVars, runnerVars, dashVars>>

\* Attempt that re-raises only once _tries is below zero.
AttemptOffByOne(cause) ==
    /\ outcome = "running"
    /\ IF cause = None
       THEN /\ timeline' = timeline \o MethodBody(cause)
            /\ outcome' = "returned"
            /\ UNCHANGED <<tries, delay, error>>
       ELSE /\ tries' = tries - 1
            /\ IF tries' < 0
               THEN /\ timeline' = timeline \o MethodBody(cause)
                    /\ outcome' = "raised"
                    /\ error' = cause
                    /\ UNCHANGED delay
               ELSE /\ timeline' =
                          timeline \o MethodBody(cause) \o <<Sleep(delay)>>
                    /\ delay' = NextDelay(delay)
                    /\ UNCHANGED <<outcome, error>>
    /\ UNCHANGED <<api, collectorVars, runnerVars, dashVars>>

\* One pass of retry's loop: the method body runs; when it raises, _tries
\* is decremented and the error is re-raised if no attempt is left, else
\* retry sleeps _delay and multiplies it.
Attempt(cause) ==
    /\ outcome = "running"
    /\ IF cause = None
       THEN /\ timeline' = timeline \o MethodBody(cause)
            /\ outcome' = "returned"
            /\ UNCHANGED <<tries, delay, error>>
       ELSE /\ tries' = tries - 1
            /\ IF tries' = 0
               THEN /\ timeline' = timeline \o MethodBody(cause)
                    /\ outcome' = "raised"
                    /\ error' = cause
                    /\ UNCHANGED delay
               ELSE /\ timeline' =
                          timeline \o MethodBody(cause) \o <<Sleep(delay)>>
                    /\ delay' = NextDelay(delay)
                    /\ UNCHANGED <<outcome, error>>
    /\ UNCHANGED <<api, collectorVars, runnerVars, dashVars>>

\* The call is over and its caller goes on.
ClientReturn ==
    /\ outcome \in {"returned", "raised"}
    /\ api' = "none"
    /\ outcome' = "none"
    /\ tries' = 0
    /\ delay' = 0
    /\ timeline' = <<>>
    /\ error' = None

\* ------------------------------------------------------------ caller
\* main is started with a command line.
MainStart(mode, data_type, start) ==
    /\ rpc = "off"
    /\ pc = "idle"
    /\ args' = [mode |-> mode, data_type |-> data_type, start_date |-> start]
    /\ config' = {}
    /\ environ' = NoEnviron
    /\ port' = None
    /\ rpc' = "validate"
    /\ calls' = <<>>
    /\ todo' = <<>>
    /\ failing' = FALSE
    /\ exit' = "none"
    /\ engine' = "none"
    /\ prev' = NoPrev
    /\ UNCHANGED <<schema, etf_basic, etf_share_size, remote, today, pc, entry,
                   etf_list, idx, start_date, end_date, df, total_records,
                   requests, fetch_failed, store0, basic0, sessions, basic_df,
                   job, scope, open_sessions>>

\* config = Config(); config.validate(), in the environment env.
Validate(env) ==
    /\ rpc = "validate"
    /\ environ' = env
    /\ config' = Given(env)
    /\ calls' = Append(calls, "validate")
    /\ UNCHANGED port
    /\ IF ValidateOk(Given(env))
       THEN rpc' = "connect" /\ UNCHANGED failing
       ELSE rpc' = "finally" /\ failing' = TRUE
    /\ UNCHANGED <<args, todo, exit, engine, schema, collectorVars>>

\* db = Database(config); db.connect(): the engine is created, or connect
\* raises before it is.
Connect(ok) ==
    /\ rpc = "connect"
    /\ calls' = Append(calls, "connect")
    /\ port' = ConnectPort(environ)
    /\ IF ok
       THEN rpc' = "create_tables" /\ engine' = "live" /\ UNCHANGED failing
       ELSE rpc' = "finally" /\ failing' = TRUE /\ UNCHANGED engine
    /\ UNCHANGED <<args, config, environ, todo, exit, schema, collectorVars>>

\* db.create_tables(); client = TushareClient(config); the collectors to
\* run are those of the data type.
CreateTables(ok) ==
    /\ rpc = "create_tables"
    /\ calls' = Append(calls, "create_tables")
    /\ IF ok
       THEN /\ schema' = CreateAll(schema)
            /\ rpc' = "jobs"
            /\ todo' = Selected(args.data_type)
            /\ UNCHANGED failing
       ELSE /\ rpc' = "finally"
            /\ failing' = TRUE
            /\ UNCHANGED <<schema, todo>>
    /\ UNCHANGED <<args, config, environ, port, exit, engine, collectorVars>>

\* main calls the operation of the next collector: collect_full or
\* collect_incremental of ETFBasicCollector (the second calls the first).
RunBasic(ok, frame) ==
    /\ rpc = "jobs"
    /\ todo # <<>> /\ Head(todo) = "basic"
    /\ BasicFetch(ok, frame)
    /\ calls' = Append(calls, Operation("basic", args.mode))
    /\ rpc' = "in_job"
    /\ UNCHANGED <<args, config, environ, port, todo, failing, exit, engine, schema>>

\* main calls collect_full(start_date=args.start_date) or
\* collect_incremental() of ETFShareCollector.
RunShare(latest_ok, list_ok) ==
    /\ rpc = "jobs"
    /\ todo # <<>> /\ Head(todo) = "share"
    /\ IF args.mode = "full"
       THEN CollectFull(args.start_date, list_ok)
       ELSE CollectIncremental(latest_ok, list_ok)
    /\ calls' = Append(calls, Operation("share", args.mode))
    /\ rpc' = "in_job"
    /\ UNCHANGED <<args, config, environ, port, todo, failing, exit, engine, schema>>

\* The operation has returned or raised; the caller goes on.
Return ==
    /\ pc \in {"done", "raised"}
    /\ pc' = "idle"
    /\ prev' = IF job = "share" /\ entry = "incremental" /\ pc = "done"
               THEN (IF fetch_failed = {} THEN "clean" ELSE "failed")
               ELSE NoPrev
    /\ job' = "none"
    /\ entry' = "none"
    /\ etf_list' = <<>>
    /\ idx' = 0
    /\ start_date' = None
    /\ end_date' = None
    /\ df' = {}
    /\ basic_df' = <<>>
    /\ total_records' = 0
    /\ requests' = <<>>
    /\ fetch_failed' = {}
    /\ store0' = EmptyBag
    /\ basic0' = {}
    /\ sessions' = 0
    /\ scope' = NoScope
    /\ UNCHANGED <<etf_basic, etf_share_size, remote, today, open_sessions>>

\* JobReturn that logs the error of the collector and goes on with the next
\* one.
JobReturnContinues ==
    /\ rpc = "in_job"
    /\ rpc' = "jobs"
    /\ todo' = Tail(todo)
    /\ UNCHANGED failing
    /\ Return
    /\ UNCHANGED <<args, config, environ, port, calls, exit, engine, schema>>

\* The operation main called is over: main goes on with the next collector,
\* or the error propagates to its finally clause.
JobReturn ==
    /\ rpc = "in_job"
    /\ IF pc = "done"
       THEN rpc' = "jobs" /\ todo' = Tail(todo) /\ UNCHANGED failing
       ELSE rpc' = "finally" /\ failing' = TRUE /\ UNCHANGED todo
    /\ Return
    /\ UNCHANGED <<args, config, environ, port, calls, exit, engine, schema>>

\* No collector is left: "Data collection completed successfully".
JobsDone ==
    /\ rpc = "jobs"
    /\ todo = <<>>
    /\ rpc' = "finally"
    /\ UNCHANGED <<args, config, environ, port, calls, todo, failing, exit, engine, schema,
                   collectorVars>>

\* The finally clause of main, then main returns, or raises the error its
\* except clause logged.
MainExit ==
    /\ rpc = "finally"
    /\ LET events == Finally(Count(calls, "connect") > 0, engine, failing)
       IN  /\ calls' = calls \o events
           /\ engine' = IF Count(events, "dispose") > 0 THEN "disposed"
                         ELSE engine
    /\ exit' = IF failing THEN "raised" ELSE "returned"
    /\ rpc' = "exited"
    /\ UNCHANGED <<args, config, environ, port, todo, failing, schema, collectorVars>>

\* The process is gone.
MainOver ==
    /\ rpc = "exited"
    /\ rpc' = "off"
    /\ args' = NoArgs
    /\ config' = {}
    /\ environ' = NoEnviron
    /\ port' = None
    /\ calls' = <<>>
    /\ todo' = <<>>
    /\ failing' = FALSE
    /\ exit' = "none"
    /\ engine' = "none"
    /\ UNCHANGED <<schema, collectorVars>>

StartDates == {DefaultStartDate} \cup {Strftime(d) : d \in Days}

\* The collectors, each client call taken as one step that returns or raises.
Next ==
    \/ /\ \E f \in Funds, d \in Days, v \in Shares : Publish(f, d, v)
       /\ UNCHANGED <<clientVars, runnerVars, dashVars>>
    \/ /\ Tick
       /\ UNCHANGED <<clientVars, runnerVars, dashVars>>
    \/ /\ \E start \in StartDates, list_ok \in BOOLEAN : CollectFull(start, list_ok)
       /\ UNCHANGED <<clientVars, runnerVars, dashVars>>
    \/ /\ \E latest_ok, list_ok \in BOOLEAN : CollectIncremental(latest_ok, list_ok)
       /\ UNCHANGED <<clientVars, runnerVars, dashVars>>
    \/ /\ \E ok \in BOOLEAN : Fetch(ok)
       /\ UNCHANGED <<clientVars, runnerVars, dashVars>>
    \/ /\ Save
       /\ UNCHANGED <<clientVars, runnerVars, dashVars>>
    \/ /\ LoopEnd
       /\ UNCHANGED <<clientVars, runnerVars, dashVars>>
    \/ /\ \E ok \in BOOLEAN, frame \in BasicFrames : BasicFetch(ok, frame)
       /\ UNCHANGED <<clientVars, runnerVars, dashVars>>
    \/ /\ BasicSave
       /\ UNCHANGED <<clientVars, runnerVars, dashVars>>
    \/ /\ Return
       /\ UNCHANGED <<clientVars, runnerVars, dashVars>>

Spec == Init /\ [][Next]_vars

\* The incremental collectors with every client call in its attempts: a
\* collector fetches by calling the client and goes on with what the call
\* returned or raised.  The remote data are fixed once the series table
\* holds a row.
NextClient ==
    \/ /\ api = "none"
       /\ etf_share_size = EmptyBag
       /\ \E f \in Funds, d \in Days, v \in Shares : Publish(f, d, v)
       /\ UNCHANGED <<clientVars, runnerVars, dashVars>>
    \/ /\ api = "none"
       /\ Tick
       /\ UNCHANGED <<clientVars, runnerVars, dashVars>>
    \/ /\ api = "none"
       /\ \E latest_ok, list_ok \in BOOLEAN : CollectIncremental(latest_ok, list_ok)
       /\ UNCHANGED <<clientVars, runnerVars, dashVars>>
    \/ /\ pc = "idle"
       /\ ClientCall("get_etf_basic")
    \/ /\ pc = "loop" /\ idx <= Len(etf_list)
       /\ ClientCall("get_etf_share_size")
    \/ \E cause \in Causes \cup {None} : Attempt(cause)
    \/ /\ api = "get_etf_share_size"
       /\ ClientReturn
       /\ Fetch(outcome = "returned")
       /\ UNCHANGED <<runnerVars, dashVars>>
    \/ /\ api = "get_etf_basic"
       /\ ClientReturn
       /\ \E frame \in BasicFrames : BasicFetch(outcome = "returned", frame)
       /\ UNCHANGED <<runnerVars, dashVars>>
    \/ /\ Save
       /\ UNCHANGED <<clientVars, runnerVars, dashVars>>
    \/ /\ LoopEnd
       /\ UNCHANGED <<clientVars, runnerVars, dashVars>>
    \/ /\ BasicSave
       /\ UNCHANGED <<clientVars, runnerVars, dashVars>>
    \/ /\ Return
       /\ UNCHANGED <<clientVars, runnerVars, dashVars>>

SpecClient == Init /\ [][NextClient]_vars

\* The steps of NextClient against a remote source whose share sizes are
\* all the same: which size a row carries plays no part in how a run
\* proceeds.
NextSeries == NextClient /\ \A r \in remote' : r.fund_share = 1

\* A step of a running series sync.  The collector is one sequential
\* thread: the step it is at is taken (a network call returns or raises,
\* time.sleep returns), whatever the outcome of the step.
SeriesStep == job = "share" /\ NextSeries

SpecClientFair == Init /\ [][NextSeries]_vars /\ WF_vars(SeriesStep)

Modes == {"full", "incremental"}

\* The start dates given to main: the default of --start-date and the last
\* day.
RunnerStartDates == {DefaultStartDate, Strftime(MaxDay)}

\* The environments main runs in: every required setting given, or all but
\* one.
Configs == {Required} \cup {Required \ {k} : k \in Required}

\* An environment that gives the settings cfg and leaves the others unset.
EnvOf(cfg) == [k \in cfg |-> "x"]

DataTypes == {"basic", "share", "all"}

\* The collection runner: every sync is a collector operation main calls,
\* and the remote source changes between two runs of it, until the series
\* table holds a row.
NextRunner ==
    \/ /\ rpc = "off"
       /\ etf_share_size = EmptyBag
       /\ \E f \in Funds, d \in Days, v \in Shares : Publish(f, d, v)
       /\ UNCHANGED <<clientVars, runnerVars, dashVars>>
    \/ /\ rpc = "off"
       /\ Tick
       /\ UNCHANGED <<clientVars, runnerVars, dashVars>>
    \/ /\ \E mode \in Modes, data_type \in DataTypes, start \in RunnerStartDates :
              MainStart(mode, data_type, start)
       /\ UNCHANGED <<clientVars, dashVars>>
    \/ /\ \E cfg \in Configs : Validate(EnvOf(cfg))
       /\ UNCHANGED <<clientVars, dashVars>>
    \/ /\ \E ok \in BOOLEAN : Connect(ok)
       /\ UNCHANGED <<clientVars, dashVars>>
    \/ /\ \E ok \in BOOLEAN : CreateTables(ok)
       /\ UNCHANGED <<clientVars, dashVars>>
    \/ /\ \E ok \in BOOLEAN, frame \in BasicFrames : RunBasic(ok, frame)
       /\ UNCHANGED <<clientVars, dashVars>>
    \/ /\ \E latest_ok, list_ok \in BOOLEAN : RunShare(latest_ok, list_ok)
       /\ UNCHANGED <<clientVars, dashVars>>
    \/ /\ \E ok \in BOOLEAN : Fetch(ok)
       /\ UNCHANGED <<clientVars, runnerVars, dashVars>>
    \/ /\ Save
       /\ UNCHANGED <<clientVars, runnerVars, dashVars>>
    \/ /\ LoopEnd
       /\ UNCHANGED <<clientVars, runnerVars, dashVars>>
    \/ /\ BasicSave
       /\ UNCHANGED <<clientVars, runnerVars, dashVars>>
    \/ /\ JobReturn
       /\ UNCHANGED <<clientVars, dashVars>>
    \/ /\ JobsDone
       /\ UNCHANGED <<clientVars, dashVars>>
    \/ /\ MainExit
       /\ UNCHANGED <<clientVars, dashVars>>
    \/ /\ MainOver
       /\ UNCHANGED <<clientVars, dashVars>>

SpecRunner == Init /\ [][NextRunner]_vars

\* A variable of the environment, unset or set to one of the values.
Opt(key, values) == {NoEnviron} \cup {key :> v : v \in values}

\* The environments main may be started in: each required setting given or
\* not, the port unset, numeric, empty or not a number, the pooler asked
\* for or not, with or without its host.
Environs ==
    {t @@ h @@ w @@ p @@ u @@ o :
        t \in Opt("TUSHARE_TOKEN", {"token"}),
        h \in Opt("DB_HOST", {"db.example.supabase.co"}),
        w \in Opt("DB_PASSWORD", {"secret"}),
        p \in Opt("DB_PORT", {"5432", "6543", "", "abc"}),
        u \in Opt("USE_POOLER", {"false", "True"}),
        o \in Opt("DB_POOLER_HOST", {"pooler.example.com"})}

\* The start of main up to the connection, in any environment: the
\* configuration is read and validated, connect builds the URL and the
\* engine, and a run that failed goes through its finally clause.
NextConfig ==
    \/ /\ \E mode \in Modes, data_type \in DataTypes :
              MainStart(mode, data_type, DefaultStartDate)
       /\ UNCHANGED <<clientVars, dashVars>>
    \/ /\ \E env \in Environs : Validate(env)
       /\ UNCHANGED <<clientVars, dashVars>>
    \/ /\ \E ok \in BOOLEAN : Connect(ok)
       /\ UNCHANGED <<clientVars, dashVars>>
    \/ /\ MainExit
       /\ UNCHANGED <<clientVars, dashVars>>
    \/ /\ MainOver
       /\ UNCHANGED <<clientVars, dashVars>>

SpecConfig == Init /\ [][NextConfig]_vars

\* Only incremental series syncs, on remote data and a reference table that
\* are fixed once the series table holds a row.
NextIncremental ==
    \/ /\ etf_share_size = EmptyBag
       /\ \E f \in Funds, d \in Days, v \in Shares : Publish(f, d, v)
       /\ UNCHANGED <<clientVars, runnerVars, dashVars>>
    \/ /\ etf_share_size = EmptyBag
       /\ \E ok \in BOOLEAN, frame \in BasicFrames : BasicFetch(ok, frame)
       /\ UNCHANGED <<clientVars, runnerVars, dashVars>>
    \/ /\ Tick
       /\ UNCHANGED <<clientVars, runnerVars, dashVars>>
    \/ /\ \E latest_ok, list_ok \in BOOLEAN : CollectIncremental(latest_ok, list_ok)
       /\ UNCHANGED <<clientVars, runnerVars, dashVars>>
    \/ /\ \E ok \in BOOLEAN : Fetch(ok)
       /\ UNCHANGED <<clientVars, runnerVars, dashVars>>
    \/ /\ Save
       /\ UNCHANGED <<clientVars, runnerVars, dashVars>>
    \/ /\ LoopEnd
       /\ UNCHANGED <<clientVars, runnerVars, dashVars>>
    \/ /\ BasicSave
       /\ UNCHANGED <<clientVars, runnerVars, dashVars>>
    \/ /\ Return
       /\ UNCHANGED <<clientVars, runnerVars, dashVars>>

SpecIncremental == Init /\ [][NextIncremental]_vars

\* The frames that lack a join key.
Malformed == {"bad_trade_date", "null_trade_date", "null_ts_code"}

\* The incremental syncs against a remote source that may also answer with
\* rows lacking a join key.
NextJoinKey ==
    \/ NextIncremental
    \/ /\ \E kind \in Malformed, share \in Shares : FetchMalformed(kind, share)
       /\ UNCHANGED <<clientVars, runnerVars, dashVars>>

SpecJoinKey == Init /\ [][NextJoinKey]_vars

\* The columns of a fund the dashboard looks at (every fund is fetched with
\* market='E'), and the tables etf_basic may be: one row per ts_code (the
\* primary key), for the first funds.
FundColumns ==
    [delist_date : {None, 0}, fund_type : {"ETF", "LOF"}, market : {"E"},
     management : {"M"}]

FundRow(ts_code, columns) ==
    [ts_code |-> ts_code, delist_date |-> columns.delist_date,
     fund_type |-> columns.fund_type, market |-> columns.market,
     management |-> columns.management]

FundTables ==
    UNION {{{FundRow(i, g[i]) : i \in 1..n} : g \in [1..n -> FundColumns]} :
              n \in 0..MaxFunds}

\* The filters the fund list page passes: none, or a fund type (possibly
\* the empty choice), a market and a management company.
FilterChoices ==
    {t @@ m @@ c : t \in Opt("fund_type", {"", "ETF"}),
                   m \in Opt("market", {"E", "O"}),
                   c \in Opt("management", {"M"})}

\* The reference sync committed the table, before any page is shown.
Replace(table) ==
    /\ dash = NoDash
    /\ fund_table = {}
    /\ fund_table' = table
    /\ UNCHANGED dash

\* The fund list page is opened on its first page.
Open(filters, page_size) ==
    /\ dash = NoDash
    /\ LET result == LoadFundList(fund_table, filters, 1, page_size)
       IN  dash' = [filters |-> filters, page_size |-> page_size, page |-> 1,
                    result |-> result, listed |-> result.funds]
    /\ UNCHANGED fund_table

\* The next page is loaded; listed is what the pages shown so far listed.
NextPage ==
    /\ dash # NoDash
    /\ dash.page < dash.result.pages
    /\ LET result == LoadFundList(fund_table, dash.filters, dash.page + 1,
                                  dash.page_size)
       IN  dash' = [dash EXCEPT !.page = dash.page + 1, !.result = result,
                                !.listed = dash.listed \o result.funds]
    /\ UNCHANGED fund_table

\* The page is left.
Close ==
    /\ dash # NoDash
    /\ dash' = NoDash
    /\ UNCHANGED fund_table

\* The dashboard's fund list over any content of etf_basic.
NextDashboard ==
    \/ /\ fund_table = {}
       /\ \E table \in FundTables : Replace(table)
       /\ UNCHANGED <<collectorVars, clientVars, runnerVars>>
    \/ /\ dash = NoDash
       /\ \E filters \in FilterChoices, page_size \in 1..MaxPageSize :
              Open(filters, page_size)
       /\ UNCHANGED <<collectorVars, clientVars, runnerVars>>
    \/ /\ NextPage
       /\ UNCHANGED <<collectorVars, clientVars, runnerVars>>
    \/ /\ Close
       /\ UNCHANGED <<collectorVars, clientVars, runnerVars>>

SpecDashboard == Init /\ [][NextDashboard]_vars

\* ------------------------------------------------------------ claims
\* Helpers of the claims' formulas (stated on the tables, not through the
\* operators that model the code).
Rows(table) == BagToSet(table)

HasKey(table, f, d) == \E r \in Rows(table) : r.ts_code = f /\ r.trade_date = d

\* The funds of the run's list whose iteration is over.
Processed ==
    {etf_list[i] : i \in {j \in 1..Len(etf_list) : j < idx}}

\* What the remote source returns for fund f in this run's date range, as
\* the rows the job has to store (trade date as a date).
Fetched(f) ==
    {[ts_code |-> r.ts_code, trade_date |-> d, fund_share |-> r.fund_share] :
        <<r, d>> \in {<<x, n>> \in remote \X (0..(MaxDay + 1)) :
                          /\ x.ts_code = f
                          /\ Strftime(n) = x.trade_date
                          /\ start_date <= x.trade_date
                          /\ x.trade_date <= end_date}}

ShareDone == pc = "done" /\ job = "share"

\* C1: the share-size table never holds two rows with the same
\* (fund identifier, trade date), whatever syncs ran and whichever fetches
\* failed.
C1_NoDuplicateKey ==
    \A r1 \in Rows(etf_share_size) :
        /\ CopiesIn(r1, etf_share_size) = 1
        /\ \A r2 \in Rows(etf_share_size) :
               (r1.ts_code = r2.ts_code /\ r1.trade_date = r2.trade_date)
                   => r1 = r2

\* C1's case: a fund's batch holding a key the table already held was saved.
C1_Witness ==
    /\ job = "share"
    /\ \E f \in Processed \ fetch_failed :
           \E r \in Fetched(f) : HasKey(store0, f, r.trade_date)

\* C2: when the fetch of one fund fails on every attempt, the run still
\* requests every fund of the list in order, never raises, and on return the
\* rows fetched for every other fund are in the table.
C2_PartialFailureIsolation ==
    /\ (job = "share" /\ fetch_failed # {}) => pc # "raised"
    /\ (ShareDone /\ fetch_failed # {}) =>
           /\ Len(requests) = Len(etf_list)
           /\ \A i \in 1..Len(etf_list) : requests[i].ts_code = etf_list[i]
           /\ \A f \in Processed \ fetch_failed :
                  \A r \in Fetched(f) : r \in Rows(etf_share_size)

\* C3: saving a fetched row whose key the table already holds leaves exactly
\* one row for that key, carrying the fetched share size.
C3_UpsertByMerge ==
    [][(pc = "save" /\ pc' = "loop") =>
          \A r \in df :
              HasKey(etf_share_size, r.ts_code, r.trade_date) =>
                  /\ {x \in Rows(etf_share_size') :
                         x.ts_code = r.ts_code /\ x.trade_date = r.trade_date}
                     = {r}
                  /\ CopiesIn(r, etf_share_size') = 1]_vars

\* C4: after a full series sync, every row fetched for a fund whose fetch
\* succeeded is in the table with the fetched share size, whether or not its
\* key was stored before the run.
C4_FullSyncKeepsFetchedRows ==
    (ShareDone /\ entry = "full") =>
        \A f \in Processed \ fetch_failed :
            \A r \in Fetched(f) : r \in Rows(etf_share_size)

\* C5: when only incremental series syncs have run on fixed remote data and
\* a fixed reference table, an incremental sync that returns with every fetch
\* succeeded leaves in the table every remote observation, up to today, of
\* every fund of the reference table.
C5_NoFundMissed ==
    (ShareDone /\ entry = "incremental" /\ fetch_failed = {}) =>
        \A r \in remote :
            (r.ts_code \in etf_basic /\ r.trade_date <= Strftime(today)) =>
                \E x \in Rows(etf_share_size) :
                    x.ts_code = r.ts_code /\ Strftime(x.trade_date) = r.trade_date

C7_WatermarkRange ==
    (job = "share" /\ entry = "incremental" /\ store0 # EmptyBag) =>
        \E w \in Rows(store0) :
            /\ \A r \in Rows(store0) : r.trade_date <= w.trade_date
            /\ \A i \in 1..Len(requests) :
                   /\ requests[i].start_date = Strftime(w.trade_date + 1)
                   /\ requests[i].end_date = Strftime(today)

\* C7's case: the second fund was requested after the rows saved for the
\* first one raised the stored maximum.
C7_Witness ==
    /\ job = "share" /\ entry = "incremental" /\ store0 # EmptyBag
    /\ Len(requests) >= 2
    /\ \E x \in Rows(etf_share_size) :
           \A r \in Rows(store0) : r.trade_date < x.trade_date

\* What collect_full('20200101') leaves on an empty table: one request per
\* fund of the list, in order, from the default start date to today; the
\* rows of the funds whose fetch succeeded, once each; their count.
LikeFullFromDefault ==
    /\ requests = [i \in 1..Len(etf_list) |->
                      [ts_code |-> etf_list[i], start_date |-> DefaultStartDate,
                       end_date |-> Strftime(today)]]
    /\ etf_share_size =
           SetToBag(UNION {Fetched(f) : f \in Processed \ fetch_failed})
    /\ total_records =
           Cardinality(UNION {Fetched(f) : f \in Processed \ fetch_failed})

\* C8: entered on an empty table, collect_incremental and
\* collect_full('20200101') issue the same requests and return with the same
\* table and count: both are the same function of the fund list, the remote
\* data, today and the fetches that failed.
C8_IncrementalOnEmptyIsFull ==
    (ShareDone /\ store0 = EmptyBag
        /\ (entry = "incremental" \/ start_date = DefaultStartDate)) =>
        LikeFullFromDefault

\* C8's case: an incremental sync entered on an empty table returned, with
\* rows saved for one fund and the fetch of another failed.
C8_Witness ==
    /\ ShareDone /\ entry = "incremental" /\ store0 = EmptyBag
    /\ etf_share_size # EmptyBag
    /\ fetch_failed # {}

\* C9: a reference sync whose fetch returned no row returns normally, opens
\* no session and leaves the reference table as it was.
C9_EmptyReferenceFetchKeepsTable ==
    (job = "basic" /\ basic_df = <<>> /\ pc \in {"done", "basic_save"}) =>
        /\ pc = "done"
        /\ sessions = 0
        /\ etf_basic = basic0

\* C9's case: the fetch returned no row while the table held funds.
C9_Witness ==
    /\ job = "basic" /\ pc = "done" /\ basic_df = <<>>
    /\ etf_basic # {}

\* C10: after a reference sync that fetched a non-empty set and returned
\* normally, the identifiers of the reference table are exactly the fetched
\* ones.
C10_ReferenceReplacedWholesale ==
    (job = "basic" /\ pc = "done" /\ basic_df # <<>>) =>
        etf_basic = {basic_df[i] : i \in 1..Len(basic_df)}

\* C10's case: the sync dropped a stored fund and brought a new one.
C10_Witness ==
    /\ job = "basic" /\ pc = "done" /\ basic_df # <<>>
    /\ basic0 \ etf_basic # {}
    /\ etf_basic \ basic0 # {}

\* Whether a frame lists an identifier twice.
HasDuplicate(frame) ==
    \E i, j \in 1..Len(frame) : i # j /\ frame[i] = frame[j]

\* C11: a reference sync whose save fails after the delete (the fetched set
\* lists an identifier twice, so the commit is rejected) is rolled back,
\* leaves the reference table with exactly the rows it held before the sync,
\* and raises to the caller.
C11_NoPartialReferenceUpdate ==
    /\ (job = "basic" /\ sessions = 1 /\ HasDuplicate(basic_df)) =>
           /\ pc = "raised"
           /\ Count(scope, "rollback") = 1
           /\ etf_basic = basic0
    /\ (job = "basic" /\ pc = "raised") => etf_basic = basic0

\* C11's case: the save of a frame with a repeated identifier and a fund the
\* table did not hold was rejected while the table held funds.
C11_Witness ==
    /\ job = "basic" /\ pc = "raised" /\ sessions = 1
    /\ HasDuplicate(basic_df)
    /\ basic0 # {}
    /\ Codes(basic_df) \ basic0 # {}

\* C12: every session scope does exactly one of commit and rollback: commit
\* when the unit of work and the commit return, rollback followed by raising
\* otherwise; it creates its session first and closes it last, so no
\* session is open once the scope is left.
C12_SessionScope ==
    /\ open_sessions = 0
    /\ scope # NoScope =>
           /\ Head(scope) = "SessionLocal"
           /\ scope[Len(scope)] = "close"
           /\ Count(scope, "SessionLocal") = 1 /\ Count(scope, "close") = 1
           /\ Count(scope, "commit") + Count(scope, "rollback") = 1
           /\ Count(scope, "rollback") = Count(scope, "raise")
           /\ \A i \in 1..Len(scope) :
                  scope[i] = "rollback" => scope[i + 1] = "raise"
           /\ Count(scope, "commit_raises") = 1 => Count(scope, "rollback") = 1
    /\ (job = "basic" /\ sessions = 1) =>
           /\ HasDuplicate(basic_df) => Count(scope, "rollback") = 1
           /\ ~HasDuplicate(basic_df) => Count(scope, "commit") = 1

\* C12's case: in one run a scope committed and a later one, whose commit
\* raised, rolled back.
C12_Witness ==
    /\ job = "share" /\ pc = "loop"
    /\ etf_share_size # store0
    /\ Count(scope, "commit_raises") = 1
    /\ Count(scope, "rollback") = 1

\* C13: when a series sync returns, of the batch fetched for a fund either
\* every row is in the table or none is.
C13_BatchAllOrNone ==
    ShareDone =>
        \A f \in Processed \ fetch_failed :
            \/ \A r \in Fetched(f) : r \in Rows(etf_share_size)
            \/ \A r \in Fetched(f) : r \notin Rows(etf_share_size)

\* C16: a series sync whose watermark or fund list query raises ends by
\* raising, with no fetch requested and the series table as the run found
\* it; a reference sync whose fetch raises ends by raising, with the
\* reference table as the run found it.
C16_FailureOutsideLoopAborts ==
    /\ (job = "share" /\ Raised(scope) /\ requests = <<>>) =>
           /\ pc = "raised"
           /\ etf_share_size = store0
    /\ (job = "share" /\ pc = "raised") =>
           /\ requests = <<>>
           /\ etf_share_size = store0
    /\ (job = "basic" /\ fetch_failed # {}) =>
           /\ pc = "raised"
           /\ sessions = 0
           /\ etf_basic = basic0

\* C16's case: the fund list query of an incremental sync raised, after the
\* watermark query, while the reference table held a fund with a remote
\* observation.
C16_Witness ==
    /\ job = "share" /\ entry = "incremental" /\ pc = "raised"
    /\ sessions = 2
    /\ \E r \in remote : r.ts_code \in etf_basic

\* C20: during and after a series sync the reference table is the one the
\* run found, whichever fetches and saves failed.
C20_SeriesSyncKeepsReference ==
    job = "share" => etf_basic = basic0

\* C20's case: a series sync returned after a fetch failed, a save was
\* rejected and another save changed the series table.
C20_Witness ==
    /\ ShareDone
    /\ etf_basic # {}
    /\ fetch_failed # {}
    /\ etf_share_size # store0

\* The positions of the network calls in the timeline of the client call,
\* those that failed, and the waits of retry in order.
Calls == {i \in 1..Len(timeline) : timeline[i].ev = "call"}

FailedCalls == {i \in Calls : timeline[i].arg # None}

IsSleep(e) == e.ev = "sleep"

Waits == SelectSeq(timeline, IsSleep)

\* C14: a client call makes at most 3 network calls; a network call that
\* returns is its last step and the call returns; after the first failed
\* network call it waits 1, after the second 2; after the third it raises
\* with the cause of that third failure, and it raises in no other case.
C14_RetryBound ==
    api # "none" =>
        /\ Cardinality(Calls) <= 3
        /\ \A i \in Calls \ FailedCalls :
               i = Len(timeline) /\ outcome = "returned"
        /\ outcome = "returned" => Calls \ FailedCalls # {}
        /\ Len(Waits) = IF Cardinality(FailedCalls) = 3 THEN 2
                        ELSE Cardinality(FailedCalls)
        /\ Len(Waits) >= 1 => Waits[1].arg = 1
        /\ Len(Waits) >= 2 => Waits[2].arg = 2
        /\ \A i \in FailedCalls :
               Cardinality({j \in Calls : j <= i}) < 3 =>
                   i < Len(timeline) /\ timeline[i + 1].ev = "sleep"
        /\ outcome = "raised" <=> Cardinality(FailedCalls) = 3
        /\ outcome = "raised" => error = timeline[Len(timeline)].arg
        /\ outcome = "running" =>
               Cardinality(FailedCalls) < 3 /\ Calls = FailedCalls

\* C14's case: the fetch of a fund's share sizes failed three times, the
\* last time with another cause than the first, and raised.
C14_Witness ==
    /\ api = "get_etf_share_size"
    /\ outcome = "raised"
    /\ Cardinality(FailedCalls) = 3
    /\ \E i \in FailedCalls : timeline[i].arg # error

\* C15: every network call of a client call, first attempt or retry, comes
\* right after a rate-limit delay of its own.
C15_RateLimitBeforeEveryCall ==
    api # "none" =>
        /\ \A i \in Calls : i > 1 /\ timeline[i - 1].ev = "rate_limit"
        /\ Cardinality({i \in 1..Len(timeline) : timeline[i].ev = "rate_limit"})
               = Cardinality(Calls)

\* C15's case: a third attempt of the reference fetch called the network
\* and returned.
C15_Witness ==
    /\ api = "get_etf_basic"
    /\ Cardinality(Calls) = 3
    /\ outcome = "returned"

\* The operations of the collectors, and those main called so far, in order.
Operations ==
    {"basic.collect_full", "basic.collect_incremental",
     "share.collect_full", "share.collect_incremental"}

IsOperation(c) == c \in Operations

JobCalls == SelectSeq(calls, IsOperation)

Position(c) == CHOOSE i \in 1..Len(calls) : calls[i] = c

FullSchema == {"etf_basic", "etf_share_size", "idx_ts_code_trade_date"}

\* C17: when main is over after having called connect, it has called close
\* exactly once, after every other call, and no engine is left that was not
\* disposed exactly once; and when an error was propagating (a collector
\* raised, or connect or create_tables did), main raised.
C17_ClosedOnceThenPropagates ==
    rpc = "exited" =>
        /\ Count(calls, "connect") > 0 =>
               /\ Count(calls, "close") = 1
               /\ \A i \in 1..Len(calls) :
                      i > Position("close") => calls[i] = "dispose"
        /\ engine # "live"
        /\ Count(calls, "dispose") = IF engine = "disposed" THEN 1 ELSE 0
        /\ failing => exit = "raised"
        /\ ~failing => exit = "returned"

\* C17's case: main is over after the share collector, run after the basic
\* collector, raised.
C17_Witness ==
    /\ rpc = "exited"
    /\ failing
    /\ Count(calls, "basic.collect_incremental") = 1
    /\ Count(calls, "share.collect_incremental") = 1
    /\ Count(calls, "close") = 1

\* C18: a collector runs, and a fetch is requested, only after validate,
\* connect and create_tables were called in that order and returned: the
\* configuration is valid, the engine exists and both tables and the unique
\* index exist; and when one of the three raised no collector was called.
C18_LifecycleOrder ==
    /\ \A i \in 1..Len(calls) :
           /\ calls[i] = "validate" => i = 1
           /\ calls[i] = "connect" => i = 2 /\ ValidateOk(config)
           /\ calls[i] = "create_tables" => i = 3 /\ engine # "none"
           /\ calls[i] \in Operations =>
                  /\ i > 3
                  /\ SubSeq(calls, 1, 3) = <<"validate", "connect", "create_tables">>
    /\ (rpc # "off" /\ (job # "none" \/ requests # <<>>)) =>
           /\ Len(JobCalls) > 0
           /\ ValidateOk(config)
           /\ engine = "live"
           /\ FullSchema \subseteq schema
    /\ (failing /\ Len(calls) > 0
            /\ calls[Len(calls)] \in {"validate", "connect", "create_tables"}) =>
           /\ JobCalls = <<>>
           /\ job = "none"
           /\ requests = <<>>

\* C18's case: the share collector has requested a fetch.
C18_Witness ==
    /\ rpc = "in_job"
    /\ job = "share"
    /\ requests # <<>>

\* C19: main calls the reference operation iff the data type is basic or
\* all and the series operation iff it is share or all, each once and the
\* reference one first; in full mode collect_full, the series one from the
\* start date given; in incremental mode collect_incremental, the series one
\* from its watermark or the default start date whatever start date was
\* given, and the reference one replacing the table as collect_full does.
C19_JobSelection ==
    /\ \A c \in Operations : Count(calls, c) <= 1
    /\ \A i \in 1..Len(calls) :
           /\ calls[i] = "basic.collect_full" =>
                  args.mode = "full" /\ args.data_type \in {"basic", "all"}
           /\ calls[i] = "basic.collect_incremental" =>
                  args.mode = "incremental" /\ args.data_type \in {"basic", "all"}
           /\ calls[i] = "share.collect_full" =>
                  args.mode = "full" /\ args.data_type \in {"share", "all"}
           /\ calls[i] = "share.collect_incremental" =>
                  args.mode = "incremental" /\ args.data_type \in {"share", "all"}
    /\ (rpc = "exited" /\ exit = "returned") =>
           JobCalls =
               (IF args.data_type \in {"basic", "all"}
                THEN (IF args.mode = "full" THEN <<"basic.collect_full">>
                      ELSE <<"basic.collect_incremental">>)
                ELSE <<>>)
               \o (IF args.data_type \in {"share", "all"}
                   THEN (IF args.mode = "full" THEN <<"share.collect_full">>
                         ELSE <<"share.collect_incremental">>)
                   ELSE <<>>)
    /\ (rpc = "in_job" /\ job = "share" /\ pc # "raised") =>
           IF args.mode = "full"
           THEN start_date = args.start_date
           ELSE start_date =
                    IF store0 = EmptyBag THEN 20200101
                    ELSE Strftime(1 + CHOOSE d \in {r.trade_date : r \in Rows(store0)} :
                                      \A r \in Rows(store0) : r.trade_date <= d)
    /\ (rpc = "in_job" /\ job = "basic" /\ pc = "done") =>
           etf_basic = IF basic_df = <<>> THEN basic0
                       ELSE {basic_df[i] : i \in 1..Len(basic_df)}

\* C19's case: main returned from an incremental run of both collectors,
\* given a start date that is not the default, with rows in the series table.
C19_Witness ==
    /\ rpc = "exited" /\ exit = "returned"
    /\ args.mode = "incremental" /\ args.data_type = "all"
    /\ args.start_date # 20200101
    /\ etf_share_size # EmptyBag

\* The (fund identifier, trade date) keys a table holds.
Keys(table) == {<<r.ts_code, r.trade_date>> : r \in Rows(table)}

\* C21: series rows are never deleted: no step of a reference sync or of a
\* full or incremental series sync, failed and rolled back ones included,
\* removes a (fund identifier, trade date) key from the series table.
C21_SeriesKeysOnlyGrow ==
    [][Keys(etf_share_size) \subseteq Keys(etf_share_size')]_vars

\* C21's case: a series sync with a failed fund added rows to a table that
\* held rows older than the run's range.
C21_Witness ==
    /\ ShareDone
    /\ fetch_failed # {}
    /\ etf_share_size # store0
    /\ \E r \in Rows(store0) : Strftime(r.trade_date) < start_date

\* C22: no database session is open while a remote fetch (its rate-limit
\* delay, its network attempts and the waits between them) is in progress:
\* every session a sync opened was closed before the client is called.
C22_NoSessionAcrossFetch ==
    (api # "none") => (open_sessions = 0 /\ LeftOpen(scope) = 0)

\* C22's case: the second fetch of a series sync is retrying after the
\* sync has opened and closed sessions, one of them writing the first
\* fund's rows.
C22_Witness ==
    /\ api = "get_etf_share_size"
    /\ job = "share"
    /\ sessions >= 2
    /\ Count(scope, "commit") > 0
    /\ etf_share_size # store0
    /\ Waits # <<>>

\* C23: the total a series sync reports on return is the number of rows
\* the run committed to the series table; the rows of a fund whose
\* transaction was rolled back are not in it.
C23_TotalIsRowsWritten ==
    ShareDone =>
        total_records = BagCardinality(etf_share_size) - BagCardinality(store0)

\* The settings the run was given lack a required one.
MissingRequired(cfg) ==
    {"TUSHARE_TOKEN", "DB_HOST", "DB_PASSWORD"} \ cfg # {}

\* C24: when the data-source token, the database host or the database
\* password is missing, validate raises before connect is attempted: from
\* the call of validate to the end of the run, main calls neither connect
\* nor create_tables nor a collector, no engine exists, no request is sent,
\* neither table nor the schema changes, and main raises.
C24_MissingConfigIsFatal ==
    [][(Count(calls', "validate") = 1 /\ MissingRequired(config')) =>
           /\ failing'
           /\ calls' \in {<<"validate">>}
           /\ engine' = "none"
           /\ job' = "none"
           /\ api' = "none"
           /\ UNCHANGED <<etf_basic, etf_share_size, schema, requests,
                          sessions, open_sessions>>
           /\ rpc' \in {"finally", "exited"}
           /\ (rpc' = "exited" => exit' = "raised")]_vars

\* C24's case: a run started on a store that holds data, without the
\* database password, is over.
C24_Witness ==
    /\ rpc = "exited"
    /\ config = {"TUSHARE_TOKEN", "DB_HOST"}
    /\ calls = <<"validate">>
    /\ etf_basic # {}
    /\ etf_share_size # EmptyBag

\* The environment sets DB_PORT to something int() does not convert.
MalformedPort(env) ==
    /\ "DB_PORT" \in DOMAIN env
    /\ env["DB_PORT"] \notin {"5432", "6543"}

\* C25: a malformed connection parameter is never replaced by a fallback:
\* when DB_PORT is not a number and the connection goes through it,
\* connect fails with an error: no engine is created and the run is
\* failing.
C25_MalformedPortFailsConnect ==
    (/\ Count(calls, "connect") > 0
     /\ MalformedPort(environ)
     /\ ~(UsePooler(environ) /\ "DB_POOLER_HOST" \in DOMAIN environ)) =>
        /\ failing
        /\ engine = "none"

\* C26: every row of the series table has a fund identifier and a trade
\* date: a fetched row that lacks one of them is not stored.
C26_JoinKeyPresent ==
    \A r \in Rows(etf_share_size) :
        r.ts_code # None /\ r.trade_date \notin {None, NaT}

\* The fund identifiers of a list.
Range(list) == {list[i] : i \in 1..Len(list)}

\* C27: with data-type all, the series job starts only after the reference
\* job of the same run was called and returned, and the list it loads is
\* the reference table as that job left it; when the reference job raises,
\* main goes to its finally clause, and from then on no job starts and the
\* series table stays as it was before the reference job.
C27_ReferenceBeforeSeries ==
    [][args.data_type = "all" =>
           /\ (job # "share" /\ job' = "share") =>
                  /\ Len(JobCalls) = 1
                  /\ JobCalls[1] \in {"basic.collect_full",
                                      "basic.collect_incremental"}
                  /\ rpc = "jobs" /\ ~failing
                  /\ pc' = "loop" => Range(etf_list') = etf_basic
           /\ (rpc = "in_job" /\ job = "basic" /\ pc = "done") =>
                  /\ rpc' = "jobs" /\ todo' = <<"share">>
                  /\ etf_basic' = etf_basic
           /\ (rpc = "jobs") => etf_basic' = etf_basic
           /\ (rpc = "in_job" /\ job = "basic" /\ pc = "raised") =>
                  /\ rpc' = "finally" /\ failing'
                  /\ etf_share_size = store0
           /\ (rpc \in {"finally", "exited"} /\ failing) =>
                  /\ job' = "none"
                  /\ JobCalls' = JobCalls \/ rpc' = "off"
                  /\ etf_share_size' = etf_share_size]_vars

\* C27's case: a run with data-type all whose reference job raised is over,
\* on a store whose reference table lists funds and whose remote source has
\* rows for them.
C27_Witness ==
    /\ args.data_type = "all"
    /\ rpc = "exited"
    /\ exit = "raised"
    /\ Len(JobCalls) = 1
    /\ etf_basic # {}
    /\ remote # {}

\* C28: an empty fetch result is a skip: the iteration of a fund whose
\* fetch returned no row opens no session, writes nothing, counts nothing,
\* records no failure and goes on with the next fund; and a run in which
\* every fund returned no row returns normally, having requested every
\* fund and left both tables and the count as they were.
C28_EmptyFetchIsSkip ==
    [][/\ (/\ job = "share" /\ pc = "loop" /\ idx <= Len(etf_list)
           /\ Fetched(etf_list[idx]) = {}
           /\ etf_list[idx] \notin fetch_failed') =>
              /\ pc' = "loop"
              /\ idx' = idx + 1
              /\ Len(requests') = Len(requests) + 1
              /\ UNCHANGED <<etf_basic, etf_share_size, total_records,
                             sessions, open_sessions, scope, fetch_failed>>
       /\ (/\ job = "share" /\ pc = "loop" /\ idx > Len(etf_list)
           /\ fetch_failed = {}
           /\ \A f \in Range(etf_list) : Fetched(f) = {}) =>
              /\ pc' = "done"
              /\ etf_share_size' = store0
              /\ etf_basic' = basic0
              /\ total_records' = 0
              /\ Len(requests') = Len(etf_list)
              /\ sessions' = IF entry = "incremental" THEN 2 ELSE 1]_vars

\* C28's case: a run over two funds on a store that holds rows returned
\* after two empty fetch results.
C28_Witness ==
    /\ ShareDone
    /\ Len(etf_list) = 2
    /\ fetch_failed = {}
    /\ \A f \in Range(etf_list) : Fetched(f) = {}
    /\ store0 # EmptyBag
    /\ remote # {}

\* C29: every series sync run terminates: the requests of the run are the
\* identifiers of the list loaded at its start, each once and in list
\* order, one fund at a time; no client call makes more than 3 network
\* attempts; and the run reaches its return (or its raise).
C29_SeriesSyncTerminates ==
    /\ [](job = "share" =>
              /\ Len(requests) <= Len(etf_list)
              /\ \A i \in 1..Len(requests) : requests[i].ts_code = etf_list[i]
              /\ \A i, j \in 1..Len(etf_list) :
                     etf_list[i] = etf_list[j] => i = j
              /\ pc = "loop" => Len(requests) = idx - 1
              /\ pc = "save" => Len(requests) = idx
              /\ pc = "done" => Len(requests) = Len(etf_list)
              /\ Cardinality(Calls) <= 3)
    /\ (job = "share") ~> (job = "share" /\ pc \in {"done", "raised"})

\* C29's case: a run over two funds returned after the fetch of the first
\* failed on every attempt and the rows fetched for the second were stored.
C29_Witness ==
    /\ ShareDone
    /\ Len(etf_list) = 2
    /\ fetch_failed = {etf_list[1]}
    /\ etf_share_size # store0

\* The dates of the series table, and its watermark: the greatest of them,
\* undefined (None) when there is none.
Dates(table) == {r.trade_date : r \in Rows(table)} \ {None}

Watermark(table) ==
    IF Dates(table) = {} THEN None
    ELSE CHOOSE d \in Dates(table) : \A e \in Dates(table) : e <= d

\* C30: the watermark of the series table never decreases: no step of a
\* reference sync or of a series sync, whatever fails, leaves a watermark
\* below the one before it, and a defined watermark stays defined.
C30_WatermarkNeverDecreases ==
    [][Watermark(etf_share_size) # None =>
           /\ Watermark(etf_share_size') # None
           /\ Watermark(etf_share_size') >= Watermark(etf_share_size)]_vars

\* C30's case: a series sync in which a fund failed moved a defined
\* watermark forward.
C30_Witness ==
    /\ ShareDone
    /\ fetch_failed # {}
    /\ Watermark(store0) # None
    /\ Watermark(etf_share_size) > Watermark(store0)

\* C31: an incremental series sync entered on a table whose watermark is W
\* requests only dates strictly after W, and leaves every stored row dated
\* W or before as it was: none is removed, none is added, none changes its
\* share size.
C31_IncrementalKeepsOldRows ==
    (job = "share" /\ entry = "incremental" /\ Watermark(store0) # None) =>
        LET W == Watermark(store0)
        IN  /\ \A i \in 1..Len(requests) :
                   /\ requests[i].start_date > Strftime(W)
                   /\ requests[i].start_date <= requests[i].end_date
                          => FundShare(requests[i].ts_code,
                                       requests[i].start_date,
                                       requests[i].end_date)
                                 \subseteq {x \in remote : x.trade_date > Strftime(W)}
            /\ \A r \in Rows(store0) :
                   r.trade_date <= W =>
                       CopiesIn(r, etf_share_size) = CopiesIn(r, store0)
            /\ \A r \in Rows(etf_share_size) :
                   r.trade_date <= W => r \in Rows(store0)

\* C31's case: an incremental sync stored rows after the watermark while
\* the remote source reports, for a stored key, a share size other than the
\* stored one.
C31_Witness ==
    /\ ShareDone
    /\ entry = "incremental"
    /\ Watermark(store0) # None
    /\ etf_share_size # store0
    /\ \E r \in Rows(store0), x \in remote :
           /\ x.ts_code = r.ts_code
           /\ x.trade_date = Strftime(r.trade_date)
           /\ x.fund_share # r.fund_share

\* C32: a reference sync never touches the series table: no step of it
\* changes etf_share_size, whether it replaces the table, skips on an
\* empty fetch or fails; and the rows of the series table do not stop the
\* replacement: a fetched list without repeated identifier is committed
\* even when it drops a fund that has series rows.
C32_ReferenceSyncKeepsSeries ==
    [][/\ (job = "basic" \/ job' = "basic") =>
              etf_share_size' = etf_share_size
       /\ job' = "basic" => etf_share_size' = store0'
       /\ (/\ job = "basic" /\ pc = "basic_save"
           /\ \A i, j \in 1..Len(basic_df) :
                  basic_df[i] = basic_df[j] => i = j) =>
              /\ pc' = "done"
              /\ etf_basic' = Range(basic_df)]_vars

\* C32's case: a reference sync committed a list that dropped a fund whose
\* rows the series table holds.
C32_Witness ==
    /\ job = "basic"
    /\ pc = "done"
    /\ \E r \in Rows(etf_share_size) :
           r.ts_code \in basic0 /\ r.ts_code \notin etf_basic

\* The active funds that match the filters: no delist date, and for each
\* filter that is given the same value in that column.
Active(table, filters) ==
    {f \in table :
        /\ f.delist_date = None
        /\ \A key \in DOMAIN filters :
               filters[key] # "" =>
                   f[key] = filters[key]}

\* The number of funds of A whose identifier is below that of f.
Rank(f, A) == Cardinality({g \in A : g.ts_code < f.ts_code})

\* C33: for page size s >= 1 and the set A of the active funds matching the
\* filters, load_fund_list reports total = |A| and pages = ceil(|A| / s);
\* page p returns the funds at positions (p-1)*s .. p*s-1 of A ordered by
\* identifier; and the pages 1..pages together list every fund of A once
\* and no other fund.
C33_Pagination ==
    dash # NoDash =>
        LET A == Active(fund_table, dash.filters)
            s == dash.page_size
            p == dash.page
            result == dash.result
        IN  /\ result.total = Cardinality(A)
            /\ result.pages * s >= Cardinality(A)
            /\ (result.pages - 1) * s < Cardinality(A)
            /\ \A f \in A :
                   (Rank(f, A) >= (p - 1) * s /\ Rank(f, A) <= p * s - 1)
                       => /\ Rank(f, A) - (p - 1) * s + 1 \in DOMAIN result.funds
                          /\ result.funds[Rank(f, A) - (p - 1) * s + 1] = f
            /\ \A k \in DOMAIN result.funds :
                   /\ result.funds[k] \in A
                   /\ Rank(result.funds[k], A) = (p - 1) * s + k - 1
            /\ (p = result.pages) =>
                   /\ Len(dash.listed) = Cardinality(A)
                   /\ \A f \in A : \E k \in DOMAIN dash.listed : dash.listed[k] = f
                   /\ \A k \in DOMAIN dash.listed :
                          dash.listed[k].delist_date = None

\* C33's case: the last of several pages is shown, the last page is not
\* full, and the table holds a delisted fund and a fund the filters exclude.
C33_Witness ==
    /\ dash # NoDash
    /\ dash.page = dash.result.pages
    /\ dash.page >= 2
    /\ Len(dash.result.funds) < dash.page_size
    /\ \E f \in fund_table : f.delist_date # None
    /\ \E f \in fund_table :
           f.delist_date = None /\ f \notin Active(fund_table, dash.filters)

====
